---------------------------- MODULE Spec2Model ----------------------------
(***************************************************************************)
(* A model of errgo: errors that carry the call stack of the place they    *)
(* were wrapped at (StackableError), and the resolution of each captured   *)
(* program counter into a stack frame (StackFrame).                        *)
(*                                                                         *)
(* Text is modelled as a sequence of one-character strings, so that        *)
(* strings.Split, strings.Index, strings.LastIndex and strings.Replace are *)
(* computed the way the library computes them.  The middle dot of a Go     *)
(* symbol name is one element, written MidDot.                             *)
(***************************************************************************)
EXTENDS Integers, Sequences, FiniteSets, TLC

VARIABLES
    MaxStackDepth,  \* the package variable MaxStackDepth
    heap,           \* the StackableError objects allocated so far; a pointer is an index
    lookups,        \* lookups[id][i]: runtime.FuncForPC calls made for address i of object id
    resolved,       \* resolved[id]: how often StackFrames resolved the addresses of object id
    site,           \* site[id]: the call that allocated object id, and its call chain
    last,           \* the last call made by the application and what it returned
    panicked,       \* TRUE once a call has panicked (the program has stopped)
    file,           \* RelativeFilePath: the argument
    rel,            \* RelativeFilePath: the result
    qname,          \* packageAndName: the qualified name of the function
    pkgName,        \* packageAndName: the result <<pkg, name>>
    phase,          \* the position of the pure-function drivers: "in" or "out"
    cstack,         \* concurrent readers: the stack of the shared StackableError
    cframes,        \* concurrent readers: its frames field
    made,           \* concurrent readers: how many slices make() has allocated
    tpc,            \* concurrent readers: each reader's position in StackFrames
    ti,             \* concurrent readers: each reader's loop index
    tret,           \* concurrent readers: what each reader's call returned
    cresolved       \* concurrent readers: NewStackFrame calls made per address

vars == <<MaxStackDepth, heap, lookups, resolved, site, last, panicked, file, rel,
          qname, pkgName, phase, cstack, cframes, made, tpc, ti, tret, cresolved>>

errVars  == <<MaxStackDepth, heap, lookups, resolved, site, last, panicked>>
pathVars == <<file, rel>>
nameVars == <<qname, pkgName>>
concVars == <<cstack, cframes, made, tpc, ti, tret, cresolved>>

\* A Go slice: the nil slice and the empty slice differ.
NilSlice == [isNil |-> TRUE, elems |-> <<>>]
Slice(s) == [isNil |-> FALSE, elems |-> s]

-----------------------------------------------------------------------------
(* Bounds of the model. *)

MaxPathLen == 5         \* longest generated file path, in characters
MaxNameLen == 5         \* longest generated qualified name, in characters
MaxErrors == 2          \* StackableErrors allocated, where only wrapping is exercised
MaxCaptures == 1        \* StackableErrors allocated, where frames are resolved too
MaxPrefixes == 2        \* prefixes appended, over all StackableErrors
MaxCallDepth == 3       \* deepest call chain of the application
MaxConfiguredDepth == 2 \* largest value the application sets MaxStackDepth to
MaxConcStack == 2       \* longest stack of the StackableError the readers share
NumReaders == 2         \* goroutines that call StackFrames on one StackableError

-----------------------------------------------------------------------------
(* Text helpers: package strings. *)

Min(a, b) == IF a <= b THEN a ELSE b

\* s[from:] with Go's 0-based offset.
SliceFrom(s, from) == SubSeq(s, from + 1, Len(s))

\* s[:to] with Go's 0-based offset.
SliceTo(s, to) == SubSeq(s, 1, to)

\* strings.Index(s, c) for a one-character c: 0-based, -1 when absent.
Index(s, c) ==
    IF \E i \in 1..Len(s) : s[i] = c
    THEN (CHOOSE i \in 1..Len(s) : s[i] = c /\ \A j \in 1..(i - 1) : s[j] # c) - 1
    ELSE -1

\* strings.LastIndex(s, c) for a one-character c: 0-based, -1 when absent.
LastIndex(s, c) ==
    IF \E i \in 1..Len(s) : s[i] = c
    THEN (CHOOSE i \in 1..Len(s) : s[i] = c /\ \A j \in (i + 1)..Len(s) : s[j] # c) - 1
    ELSE -1

\* strings.Replace(s, old, new, -1) for one-character old and new.
Replace(s, old, new) == [i \in 1..Len(s) |-> IF s[i] = old THEN new ELSE s[i]]

\* strings.Split(s, sep) for a one-character sep: always at least one piece.
RECURSIVE Split(_, _)
Split(s, sep) ==
    LET i == Index(s, sep)
    IN  IF i < 0 THEN <<s>>
        ELSE <<SliceTo(s, i)>> \o Split(SliceFrom(s, i + 1), sep)

-----------------------------------------------------------------------------
(* stackframe.go *)

Slash  == "/"
Period == "."
MidDot == "<U+00B7>"
SrcDir == <<"s", "r", "c">>

\* The loop of lines 74-80: the number of folders before the first "src".
RECURSIVE CountBeforeSrc(_)
CountBeforeSrc(folders) ==
    IF folders = <<>> \/ Head(folders) = SrcDir THEN 0
    ELSE 1 + CountBeforeSrc(Tail(folders))

\* The loop of lines 85-88: "/" and the folder, for each folder.
RECURSIVE JoinWithSlash(_)
JoinWithSlash(folders) ==
    IF folders = <<>> THEN <<>>
    ELSE <<Slash>> \o Head(folders) \o JoinWithSlash(Tail(folders))

\* RelativeFilePath with folders[count:] for folders[count+1:].
RelativeFilePathKeepSrc(f) ==
    LET folders == Split(f, Slash)
        count   == CountBeforeSrc(folders)
    IN  IF count >= Len(folders) THEN f
        ELSE JoinWithSlash(SliceFrom(folders, count))

RelativeFilePath(f) ==
    LET folders == Split(f, Slash)
        count   == CountBeforeSrc(folders)
    IN  IF count >= Len(folders) THEN f
        ELSE JoinWithSlash(SliceFrom(folders, count + 1))

\* packageAndName without line 66.
packageAndNameNoReplace(name) ==
    LET lastslash == LastIndex(name, Slash)
        pkg1  == IF lastslash >= 0 THEN SliceTo(name, lastslash) \o <<Slash>> ELSE <<>>
        name1 == IF lastslash >= 0 THEN SliceFrom(name, lastslash + 1) ELSE name
        period == Index(name1, Period)
        pkg2  == IF period >= 0 THEN pkg1 \o SliceTo(name1, period) ELSE pkg1
        name2 == IF period >= 0 THEN SliceFrom(name1, period + 1) ELSE name1
    IN  <<pkg2, name2>>

\* packageAndName on fn.Name(): <<pkg, name>>.
packageAndName(name) ==
    LET lastslash == LastIndex(name, Slash)
        pkg1  == IF lastslash >= 0 THEN SliceTo(name, lastslash) \o <<Slash>> ELSE <<>>
        name1 == IF lastslash >= 0 THEN SliceFrom(name, lastslash + 1) ELSE name
        period == Index(name1, Period)
        pkg2  == IF period >= 0 THEN pkg1 \o SliceTo(name1, period) ELSE pkg1
        name2 == IF period >= 0 THEN SliceFrom(name1, period + 1) ELSE name1
    IN  <<pkg2, Replace(name2, MidDot, Period)>>


-----------------------------------------------------------------------------
(* The runtime: program counters, runtime.Callers and the symbol table.     *)
(* Each function of the program holds one return address, its program       *)
(* counter; 0 is the null address.  A goroutine's call stack is a sequence  *)
(* of program counters, innermost first.                                    *)

PcCallers           == 1    \* in runtime.Callers
PcNewStackableError == 2    \* in newStackableError, at its call of runtime.Callers
PcWrap              == 3    \* in Wrap, at its call of newStackableError
PcWrapPrefix        == 4    \* in WrapPrefix, at its call of Wrap

LibraryPcs == {PcNewStackableError, PcWrap, PcWrapPrefix}

\* The application function at depth k of the call chain (1 is the outermost).
AppPc(k) == PcWrapPrefix + k

\* The application's call chain of depth d, innermost first.
AppChain(d) == [i \in 1..d |-> AppPc(d - i + 1)]

\* runtime.Callers(skip, buf) with len(buf) = size, on the stack goStack of
\* its caller: entry 0 of the walk is runtime.Callers itself.
RuntimeCallers(skip, size, goStack) ==
    LET full == <<PcCallers>> \o goStack
    IN  SubSeq(full, skip + 1, Min(Len(full), skip + size))

NoFunc == 0

\* runtime.FuncForPC: the outermost application function has no symbol.
FuncForPC(pc) == IF pc = AppPc(1) THEN NoFunc ELSE pc

\* (*runtime.Func).Name
FuncName(fn) ==
    IF fn \in LibraryPcs \cup {PcCallers}
    THEN <<"g", Slash, "e", Period, "W">>
    ELSE <<"m", Period, "T", MidDot, "f">>

\* (*runtime.Func).FileLine
FileLine(fn, addr) ==
    IF fn \in LibraryPcs \cup {PcCallers}
    THEN <<<<Slash, "g", Slash, "s", "r", "c", Slash, "e">>, addr + 10>>
    ELSE <<<<Slash, "m">>, addr + 10>>

-----------------------------------------------------------------------------
(* stackframe.go: StackFrame *)

ZeroFrame == [Caller |-> 0, File |-> <<>>, LineNumber |-> 0,
              FunctionName |-> <<>>, Package |-> <<>>]

\* (*StackFrame).Func
StackFrameFunc(frame) ==
    IF frame.Caller = 0 THEN NoFunc ELSE FuncForPC(frame.Caller)

NewStackFrame(caller) ==
    LET frame == [ZeroFrame EXCEPT !.Caller = caller]
    IN  IF StackFrameFunc(frame) = NoFunc THEN frame
        ELSE LET pn == packageAndName(FuncName(StackFrameFunc(frame)))
                 fl == FileLine(StackFrameFunc(frame), caller - 1)
             IN  [Caller |-> caller, File |-> fl[1], LineNumber |-> fl[2],
                  FunctionName |-> pn[2], Package |-> pn[1]]

\* The runtime.FuncForPC calls one NewStackFrame(caller) makes: each
\* frame.Func() with a non-null Caller is one (lines 23, 26 and 27).
FuncLookups(caller) ==
    IF caller = 0 THEN 0
    ELSE IF FuncForPC(caller) = NoFunc THEN 1
    ELSE 3

\* fmt's %d of a number that is not negative.
RECURSIVE Itoa(_)
Itoa(n) ==
    LET digit == <<"0", "1", "2", "3", "4", "5", "6", "7", "8", "9">>[(n % 10) + 1]
    IN  IF n < 10 THEN <<digit>> ELSE Itoa(n \div 10) \o <<digit>>

\* (*StackFrame).String
FrameString(frame) ==
    RelativeFilePath(frame.File) \o <<":", " ">> \o frame.FunctionName
        \o <<":", " ", "l", "i", "n", "e", " ">> \o Itoa(frame.LineNumber)


-----------------------------------------------------------------------------
(* Values of the application.  A value is [kind, id, text]:                 *)
(*   "nil"      the nil interface                                           *)
(*   "error"    an error of the application; id is its identity             *)
(*   "fmterror" an error made by fmt.Errorf; id is its identity             *)
(*   "value"    a value that is no error; text is its %v form               *)
(*   "ptr"      a *StackableError; id indexes heap, and 0 is the nil pointer*)
(* Messages and prefixes are TLA+ strings: the library only concatenates    *)
(* them.                                                                    *)

NilValue == [kind |-> "nil", id |-> 0, text |-> ""]
ErrE     == [kind |-> "error", id |-> 1, text |-> "E"]
ErrF     == [kind |-> "error", id |-> 2, text |-> "F"]
Value42  == [kind |-> "value", id |-> 0, text |-> "42"]
Ptr(n)   == [kind |-> "ptr", id |-> n, text |-> ""]
NilPtr   == Ptr(0)

IsStackable(v) == v.kind = "ptr"
IsError(v)     == v.kind \in {"error", "fmterror"}

\* fmt.Errorf("%v", e): a new error, whose identity is fresh.
FmtErrorf(e, fresh) ==
    [kind |-> "fmterror", id |-> fresh,
     text |-> IF e.kind = "nil" THEN "<nil>" ELSE e.text]

\* What a panicking call leaves in last.val.
Panic == "panic: nil pointer dereference"

-----------------------------------------------------------------------------
(* part_000: StackableError *)

DefaultMaxStackDepth == 50

\* newStackableError with a buffer of MaxStackDepth+1 addresses.
newStackableErrorOffByOne(e, skip, goStack) ==
    [Err |-> e,
     stack |-> RuntimeCallers(2 + skip, MaxStackDepth + 1, goStack),
     Prefixes |-> <<>>,
     frames |-> NilSlice]

\* newStackableError(e, skip), called on the stack goStack (whose first entry
\* is newStackableError's own): the object it allocates.
newStackableError(e, skip, goStack) ==
    [Err |-> e,
     stack |-> RuntimeCallers(2 + skip, MaxStackDepth, goStack),
     Prefixes |-> <<>>,
     frames |-> NilSlice]

\* Wrap without its case *StackableError.
WrapNest(e, h, callers) ==
    LET err == IF e.kind \in {"error", "fmterror", "ptr"} THEN e
               ELSE FmtErrorf(e, Len(h) + 1)
    IN  [ret |-> Ptr(Len(h) + 1),
         heap |-> Append(h, newStackableError(err, 1,
                              <<PcNewStackableError, PcWrap>> \o callers))]

\* Wrap(e) on the heap h, called from the stack callers: what it returns and
\* the heap it leaves.
Wrap(e, h, callers) ==
    IF IsStackable(e) THEN [ret |-> e, heap |-> h]
    ELSE LET err == IF IsError(e) THEN e ELSE FmtErrorf(e, Len(h) + 1)
         IN  [ret |-> Ptr(Len(h) + 1),
              heap |-> Append(h, newStackableError(err, 1,
                                   <<PcNewStackableError, PcWrap>> \o callers))]

\* WrapPrefix that puts the prefix before the others.
WrapPrefixPrepend(e, prefix, h, callers) ==
    LET w == Wrap(e, h, <<PcWrapPrefix>> \o callers)
    IN  IF w.ret = NilPtr THEN [ret |-> Panic, heap |-> w.heap, panic |-> TRUE]
        ELSE [ret |-> w.ret, panic |-> FALSE,
              heap |-> [w.heap EXCEPT ![w.ret.id].Prefixes = <<prefix>> \o @]]

\* WrapPrefix(e, prefix): line 60 dereferences what Wrap returned.
WrapPrefix(e, prefix, h, callers) ==
    LET w == Wrap(e, h, <<PcWrapPrefix>> \o callers)
    IN  IF w.ret = NilPtr THEN [ret |-> Panic, heap |-> w.heap, panic |-> TRUE]
        ELSE [ret |-> w.ret, panic |-> FALSE,
              heap |-> [w.heap EXCEPT ![w.ret.id].Prefixes = Append(@, prefix)]]

\* The loop of (*StackableError).Error over the prefixes left to apply.
RECURSIVE FoldPrefixes(_, _)
FoldPrefixes(msg, prefixes) ==
    IF prefixes = <<>> THEN msg
    ELSE FoldPrefixes(Head(prefixes) \o ": " \o msg, Tail(prefixes))

\* (*StackableError).Error on the object obj.
Error(obj) == FoldPrefixes(obj.Err.text, obj.Prefixes)

\* Is without lines 83-89.
IsIdentityOnly(e, original, h) == [panic |-> FALSE, val |-> e = original]

\* Is(e, original) on the heap h: [panic, val].
RECURSIVE Is(_, _, _)
Is(e, original, h) ==
    IF e = original THEN [panic |-> FALSE, val |-> TRUE]
    ELSE IF IsStackable(e)
         THEN IF e.id = 0 THEN [panic |-> TRUE, val |-> FALSE]
              ELSE Is(h[e.id].Err, original, h)
    ELSE IF IsStackable(original)
         THEN IF original.id = 0 THEN [panic |-> TRUE, val |-> FALSE]
              ELSE Is(e, h[original.id].Err, h)
    ELSE [panic |-> FALSE, val |-> FALSE]

\* StackFrames without the test of line 97.
NeedsResolveAlways(obj) == TRUE

\* Line 97: whether StackFrames resolves the addresses.
NeedsResolve(obj) == obj.frames.isNil

\* Lines 98-101: the frames of a stack.
ResolveAll(stack) == [i \in 1..Len(stack) |-> NewStackFrame(stack[i])]

\* (*StackableError).StackFrames on the object obj: the object it leaves.
StackFrames(obj) ==
    IF NeedsResolve(obj) THEN [obj EXCEPT !.frames = Slice(ResolveAll(obj.stack))]
    ELSE obj

\* The loop of (*StackableError).Stack over the frames left to write.
RECURSIVE StackText(_)
StackText(frames) ==
    IF frames = <<>> THEN <<>>
    ELSE FrameString(Head(frames)) \o <<"\n">> \o StackText(Tail(frames))


-----------------------------------------------------------------------------
(* The calls of the application, one action each.  A call that panics       *)
(* stops the program.                                                       *)

Ptrs == {Ptr(n) : n \in 1..Len(heap)}

PrefixCount == LET RECURSIVE Sum(_)
                   Sum(n) == IF n = 0 THEN 0 ELSE Len(heap[n].Prefixes) + Sum(n - 1)
               IN  Sum(Len(heap))

\* What an allocation adds to the bookkeeping: h is the heap after the call.
Allocated(h, op, e, chain) ==
    IF Len(h) > Len(heap)
    THEN /\ lookups' = Append(lookups, [i \in 1..Len(h[Len(h)].stack) |-> 0])
         /\ resolved' = Append(resolved, 0)
         /\ site' = Append(site, [op |-> op, of |-> e, chain |-> chain, prefixes |-> <<>>])
    ELSE UNCHANGED <<lookups, resolved, site>>

CallWrap(e, d, cap) ==
    /\ ~panicked
    /\ IsStackable(e) \/ Len(heap) < cap
    /\ LET w == Wrap(e, heap, AppChain(d))
       IN  /\ heap' = w.heap
           /\ Allocated(w.heap, "Wrap", e, AppChain(d))
           /\ last' = [op |-> "Wrap", arg |-> e, val |-> w.ret]
    /\ UNCHANGED <<MaxStackDepth, panicked>>

CallWrapPrefix(e, prefix, d, cap) ==
    /\ ~panicked
    /\ IsStackable(e) \/ Len(heap) < cap
    /\ e = NilPtr \/ PrefixCount < MaxPrefixes
    /\ LET w == WrapPrefix(e, prefix, heap, AppChain(d))
       IN  /\ heap' = w.heap
           /\ panicked' = w.panic
           /\ last' = [op |-> "WrapPrefix", arg |-> <<e, prefix>>, val |-> w.ret]
           /\ lookups' = IF Len(w.heap) > Len(heap)
                         THEN Append(lookups, [i \in 1..Len(w.heap[Len(w.heap)].stack) |-> 0])
                         ELSE lookups
           /\ resolved' = IF Len(w.heap) > Len(heap) THEN Append(resolved, 0) ELSE resolved
           /\ site' = IF w.panic THEN site
                      ELSE LET s == IF Len(w.heap) > Len(heap)
                                    THEN Append(site, [op |-> "WrapPrefix", of |-> e,
                                                       chain |-> AppChain(d),
                                                       prefixes |-> <<>>])
                                    ELSE site
                           IN  [s EXCEPT ![w.ret.id].prefixes = Append(@, prefix)]
    /\ UNCHANGED MaxStackDepth

\* A method called on the nil pointer dereferences it.
NilReceiver(op, p) ==
    /\ p = NilPtr
    /\ panicked' = TRUE
    /\ last' = [op |-> op, arg |-> p, val |-> Panic]
    /\ UNCHANGED <<MaxStackDepth, heap, lookups, resolved, site>>

CallError(p) ==
    /\ ~panicked
    /\ \/ NilReceiver("Error", p)
       \/ /\ p # NilPtr
          /\ last' = [op |-> "Error", arg |-> p, val |-> Error(heap[p.id])]
          /\ UNCHANGED <<MaxStackDepth, heap, lookups, resolved, site, panicked>>

CallCallers(p) ==
    /\ ~panicked
    /\ \/ NilReceiver("Callers", p)
       \/ /\ p # NilPtr
          /\ last' = [op |-> "Callers", arg |-> p, val |-> heap[p.id].stack]
          /\ UNCHANGED <<MaxStackDepth, heap, lookups, resolved, site, panicked>>

CallIs(e, original) ==
    /\ ~panicked
    /\ LET r == Is(e, original, heap)
       IN  /\ panicked' = r.panic
           /\ last' = [op |-> "Is", arg |-> <<e, original>>,
                       val |-> IF r.panic THEN Panic ELSE r.val]
    /\ UNCHANGED <<MaxStackDepth, heap, lookups, resolved, site>>

\* What a call of StackFrames on object id does to the heap and to the counts
\* of the runtime's work.
Resolve(id) ==
    /\ heap' = [heap EXCEPT ![id] = StackFrames(@)]
    /\ IF NeedsResolve(heap[id])
       THEN /\ resolved' = [resolved EXCEPT ![id] = @ + 1]
            /\ lookups' = [lookups EXCEPT ![id] =
                   [i \in 1..Len(heap[id].stack) |-> @[i] + FuncLookups(heap[id].stack[i])]]
       ELSE UNCHANGED <<resolved, lookups>>
    /\ UNCHANGED <<MaxStackDepth, site, panicked>>

CallStackFrames(p) ==
    /\ ~panicked
    /\ \/ NilReceiver("StackFrames", p)
       \/ /\ p # NilPtr
          /\ Resolve(p.id)
          /\ last' = [op |-> "StackFrames", arg |-> p, hit |-> ~heap[p.id].frames.isNil,
                      val |-> heap'[p.id].frames]

CallStack(p) ==
    /\ ~panicked
    /\ \/ NilReceiver("Stack", p)
       \/ /\ p # NilPtr
          /\ Resolve(p.id)
          /\ last' = [op |-> "Stack", arg |-> p, hit |-> ~heap[p.id].frames.isNil,
                      val |-> StackText(heap'[p.id].frames.elems)]

CallStackTrace(p) ==
    /\ ~panicked
    /\ \/ NilReceiver("StackTrace", p)
       \/ /\ p # NilPtr
          /\ Resolve(p.id)
          /\ last' = [op |-> "StackTrace", arg |-> p, hit |-> ~heap[p.id].frames.isNil,
                      val |-> <<"ERROR: " \o Error(heap[p.id]) \o "\n">>
                                  \o StackText(heap'[p.id].frames.elems)]

-----------------------------------------------------------------------------
(* The other parts of the state, where a specification leaves them alone.   *)

NoCall == [op |-> "none", arg |-> NilValue, val |-> NilValue]

ErrIdle  == /\ MaxStackDepth = DefaultMaxStackDepth /\ heap = <<>> /\ lookups = <<>>
            /\ resolved = <<>> /\ site = <<>> /\ last = NoCall /\ panicked = FALSE
PureIdle == /\ file = <<>> /\ rel = <<>> /\ qname = <<>> /\ pkgName = <<<<>>, <<>>>>
            /\ phase = "in"
ConcIdle == /\ cstack = <<>> /\ cframes = NilSlice /\ made = 0 /\ tpc = <<>> /\ ti = <<>>
            /\ tret = <<>> /\ cresolved = <<>>

-----------------------------------------------------------------------------
(* Wrapping: Wrap, WrapPrefix and Error, with MaxStackDepth as shipped.     *)

InitWrap == ErrIdle /\ PureIdle /\ ConcIdle

ErrOnly == UNCHANGED <<pathVars, nameVars, phase, concVars>>

WrapValues == {NilValue, ErrE, Value42}

WrapOnce ==
    \E e \in WrapValues \cup Ptrs : CallWrap(e, 1, MaxErrors) /\ ErrOnly

WrapPrefixOnce ==
    \E e \in WrapValues \cup Ptrs, prefix \in {"a", "b"} :
        CallWrapPrefix(e, prefix, 1, MaxErrors) /\ ErrOnly

ErrorOnce ==
    \E p \in Ptrs : CallError(p) /\ ErrOnly

NextWrap == WrapOnce \/ WrapPrefixOnce \/ ErrorOnce

SpecWrap == InitWrap /\ [][NextWrap]_vars

(* Comparing: Wrap, WrapPrefix and Is. *)

IsValues == {ErrE, ErrF, Value42}

WrapForIs ==
    \E e \in IsValues \cup Ptrs : CallWrap(e, 1, MaxErrors) /\ ErrOnly

WrapPrefixForIs ==
    \E e \in IsValues \cup Ptrs : CallWrapPrefix(e, "a", 1, MaxErrors) /\ ErrOnly

IsOnce ==
    \E e, original \in {NilValue, ErrE, ErrF} \cup Ptrs : CallIs(e, original) /\ ErrOnly

NextIs == WrapForIs \/ WrapPrefixForIs \/ IsOnce

SpecIs == InitWrap /\ [][NextIs]_vars

(* Capturing and resolving: every call, on call chains of every depth and   *)
(* with MaxStackDepth set by the application before its first call.         *)

InitCapture ==
    /\ MaxStackDepth \in 0..MaxConfiguredDepth
    /\ heap = <<>> /\ lookups = <<>> /\ resolved = <<>> /\ site = <<>>
    /\ last = NoCall /\ panicked = FALSE
    /\ PureIdle /\ ConcIdle

Receivers == {NilPtr} \cup Ptrs

\* The depths of the call chain to try for the argument e: the chain plays
\* no part when e is a *StackableError, for which nothing is captured.
Depths(e) == IF IsStackable(e) THEN {1} ELSE 1..MaxCallDepth

WrapAtDepth ==
    \E e \in {ErrE} \cup Receivers : \E d \in Depths(e) :
        CallWrap(e, d, MaxCaptures) /\ ErrOnly

WrapPrefixAtDepth ==
    \E e \in {ErrE} \cup Receivers : \E d \in Depths(e) :
        CallWrapPrefix(e, "a", d, MaxCaptures) /\ ErrOnly

ErrorOf       == \E p \in Receivers : CallError(p) /\ ErrOnly
CallersOf     == \E p \in Receivers : CallCallers(p) /\ ErrOnly
StackFramesOf == \E p \in Receivers : CallStackFrames(p) /\ ErrOnly
StackOf       == \E p \in Receivers : CallStack(p) /\ ErrOnly
StackTraceOf  == \E p \in Receivers : CallStackTrace(p) /\ ErrOnly

NextCapture ==
    \/ WrapAtDepth
    \/ WrapPrefixAtDepth
    \/ ErrorOf
    \/ CallersOf
    \/ StackFramesOf
    \/ StackOf
    \/ StackTraceOf

SpecCapture == InitCapture /\ [][NextCapture]_vars


-----------------------------------------------------------------------------
(* RelativeFilePath and packageAndName on generated text. *)

SeqsUpTo(chars, n) == UNION {[1..k -> chars] : k \in 0..n}

PathChars == {Slash, "s", "r", "c", "x"}
NameChars == {Slash, Period, MidDot, "a"}

\* "/home/build/src/pkg/file.go"
ExamplePath ==
    <<Slash, "h", "o", "m", "e", Slash, "b", "u", "i", "l", "d", Slash, "s", "r", "c",
      Slash, "p", "k", "g", Slash, "f", "i", "l", "e", Period, "g", "o">>

\* "example.com/pkg/sub.Type" MidDot "method"
ExampleName ==
    <<"e", "x", "a", "m", "p", "l", "e", Period, "c", "o", "m", Slash, "p", "k", "g",
      Slash, "s", "u", "b", Period, "T", "y", "p", "e", MidDot, "m", "e", "t", "h",
      "o", "d">>

PureOnly == UNCHANGED <<errVars, concVars>>

InitPath ==
    /\ file \in SeqsUpTo(PathChars, MaxPathLen) \cup {ExamplePath}
    /\ rel = <<>> /\ qname = <<>> /\ pkgName = <<<<>>, <<>>>> /\ phase = "in"
    /\ ErrIdle /\ ConcIdle

CallRelativeFilePath ==
    /\ phase = "in"
    /\ rel' = RelativeFilePath(file)
    /\ phase' = "out"
    /\ UNCHANGED <<file, nameVars>>
    /\ PureOnly

NextPath == CallRelativeFilePath

SpecPath == InitPath /\ [][NextPath]_vars

InitName ==
    /\ qname \in SeqsUpTo(NameChars, MaxNameLen) \cup {ExampleName}
    /\ pkgName = <<<<>>, <<>>>> /\ file = <<>> /\ rel = <<>> /\ phase = "in"
    /\ ErrIdle /\ ConcIdle

CallPackageAndName ==
    /\ phase = "in"
    /\ pkgName' = packageAndName(qname)
    /\ phase' = "out"
    /\ UNCHANGED <<qname, pathVars>>
    /\ PureOnly

NextName == CallPackageAndName

SpecName == InitName /\ [][NextName]_vars

-----------------------------------------------------------------------------
(* Goroutines that call StackFrames on one StackableError, with nothing to  *)
(* order them: each read and each write of err.frames is a step.            *)

Readers == 1..NumReaders

InitConc ==
    /\ cstack \in {AppChain(d) : d \in 0..MaxConcStack}
    /\ cframes = NilSlice
    /\ made = 0
    /\ tpc = [t \in Readers |-> "idle"]
    /\ ti = [t \in Readers |-> 0]
    /\ tret = [t \in Readers |-> <<>>]
    /\ cresolved = [i \in 1..Len(cstack) |-> 0]
    /\ ErrIdle /\ PureIdle

ConcOnly == UNCHANGED <<errVars, pathVars, nameVars, phase>>

\* The call of StackFrames.
ReaderCall(t) ==
    /\ tpc[t] = "idle"
    /\ tpc' = [tpc EXCEPT ![t] = "test"]
    /\ UNCHANGED <<cstack, cframes, made, ti, tret, cresolved>>
    /\ ConcOnly

\* Line 97: if err.frames == nil
ReaderTest(t) ==
    /\ tpc[t] = "test"
    /\ tpc' = [tpc EXCEPT ![t] = IF cframes.isNil THEN "make" ELSE "return"]
    /\ UNCHANGED <<cstack, cframes, made, ti, tret, cresolved>>
    /\ ConcOnly

\* Line 98: err.frames = make([]StackFrame, len(err.stack))
ReaderMake(t) ==
    /\ tpc[t] = "make"
    /\ cframes' = Slice([i \in 1..Len(cstack) |-> ZeroFrame])
    /\ made' = made + 1
    /\ ti' = [ti EXCEPT ![t] = 1]
    /\ tpc' = [tpc EXCEPT ![t] = "fill"]
    /\ UNCHANGED <<cstack, tret, cresolved>>
    /\ ConcOnly

\* Lines 99-101: one turn of the loop, or its end.
ReaderFill(t) ==
    /\ tpc[t] = "fill"
    /\ IF ti[t] <= Len(cstack)
       THEN /\ cframes' = [cframes EXCEPT !.elems[ti[t]] = NewStackFrame(cstack[ti[t]])]
            /\ cresolved' = [cresolved EXCEPT ![ti[t]] = @ + 1]
            /\ ti' = [ti EXCEPT ![t] = @ + 1]
            /\ UNCHANGED tpc
       ELSE /\ tpc' = [tpc EXCEPT ![t] = "return"]
            /\ UNCHANGED <<cframes, cresolved, ti>>
    /\ UNCHANGED <<cstack, made, tret>>
    /\ ConcOnly

\* Line 104: return err.frames; the caller looks at what it was given.
ReaderReturn(t) ==
    /\ tpc[t] = "return"
    /\ tret' = [tret EXCEPT ![t] = cframes.elems]
    /\ tpc' = [tpc EXCEPT ![t] = "done"]
    /\ UNCHANGED <<cstack, cframes, made, ti, cresolved>>
    /\ ConcOnly

NextConc ==
    \/ \E t \in Readers : ReaderCall(t)
    \/ \E t \in Readers : ReaderTest(t)
    \/ \E t \in Readers : ReaderMake(t)
    \/ \E t \in Readers : ReaderFill(t)
    \/ \E t \in Readers : ReaderReturn(t)

SpecConc == InitConc /\ [][NextConc]_vars


-----------------------------------------------------------------------------
(* The properties. *)

Ids == 1..Len(heap)

FrameCalls == {"StackFrames", "Stack", "StackTrace"}

\* The value a pointer was made from by Wrap or WrapPrefix; a value that is
\* no pointer is its own.
Origin(v) == IF IsStackable(v) THEN site[v.id].of ELSE v

RECURSIVE OuterFirst(_)
OuterFirst(ps) ==
    IF ps = <<>> THEN ""
    ELSE ps[Len(ps)] \o ": " \o OuterFirst(SubSeq(ps, 1, Len(ps) - 1))

\* C2: Error() is the prefixes of the WrapPrefix calls, the last call's
\* first, each followed by ": ", and then the message of the wrapped error;
\* "b: a: E" after the prefixes "a" and "b", and the error's own message when
\* there was no WrapPrefix call.
C2_PrefixOrdering ==
    /\ \A id \in Ids :
          /\ Error(heap[id]) = OuterFirst(site[id].prefixes) \o heap[id].Err.text
          /\ (site[id].of = ErrE /\ site[id].prefixes = <<"a", "b">>)
                 => Error(heap[id]) = "b: a: E"
          /\ (site[id].of = ErrE /\ site[id].prefixes = <<>>) => Error(heap[id]) = "E"
    /\ (last.op = "Error" /\ ~panicked)
           => last.val = OuterFirst(site[last.arg.id].prefixes) \o heap[last.arg.id].Err.text

C2_Witness ==
    /\ last.op = "Error"
    /\ site[last.arg.id].of = ErrE
    /\ site[last.arg.id].prefixes = <<"a", "b">>
    /\ last.val = "b: a: E"

Sentinels == {ErrE, ErrF}

\* C3: for a and b each a sentinel error or made from one by Wrap and
\* WrapPrefix, Is(a, b) is true when they come from the same sentinel and
\* false when they come from different ones, in both orders.
C3_ChainEquality ==
    /\ \A a, b \in Sentinels \cup Ptrs :
          (Origin(a) \in Sentinels /\ Origin(b) \in Sentinels)
              => Is(a, b, heap) = [panic |-> FALSE, val |-> Origin(a) = Origin(b)]
    /\ (/\ last.op = "Is"
        /\ Origin(last.arg[1]) \in Sentinels
        /\ Origin(last.arg[2]) \in Sentinels)
           => last.val = (Origin(last.arg[1]) = Origin(last.arg[2]))

C3_Witness ==
    /\ last.op = "Is"
    /\ IsStackable(last.arg[1]) /\ IsStackable(last.arg[2])
    /\ last.arg[1] # last.arg[2]
    /\ Origin(last.arg[1]) = ErrE /\ Origin(last.arg[2]) = ErrE
    /\ heap[last.arg[1].id].Prefixes # <<>>
    /\ last.val = TRUE

\* C4: the captured addresses of every object are the call chain of the
\* application function that called Wrap or WrapPrefix, innermost first and
\* cut at MaxStackDepth: its first address is that caller's, and no address
\* of Wrap, WrapPrefix or newStackableError is among them.
C4_CaptureSite ==
    \A id \in Ids :
        heap[id].stack =
            SubSeq(site[id].chain, 1, Min(Len(site[id].chain), MaxStackDepth))

\* C5: no object holds more addresses than MaxStackDepth, StackFrames
\* returns as many frames as the object holds addresses, and so no more than
\* MaxStackDepth.
C5_DepthBound ==
    /\ \A id \in Ids :
          /\ Len(heap[id].stack) <= MaxStackDepth
          /\ ~heap[id].frames.isNil => Len(heap[id].frames.elems) = Len(heap[id].stack)
    /\ (last.op = "Callers" /\ ~panicked) => Len(last.val) <= MaxStackDepth
    /\ (last.op = "StackFrames" /\ ~panicked)
           => /\ Len(last.val.elems) = Len(heap[last.arg.id].stack)
              /\ Len(last.val.elems) <= MaxStackDepth

C5_Witness ==
    /\ last.op = "StackFrames" /\ ~panicked
    /\ MaxStackDepth >= 1
    /\ Len(site[last.arg.id].chain) > MaxStackDepth
    /\ Len(last.val.elems) = MaxStackDepth

\* What holds of the frames of every object after any step, whatever the
\* number of runtime.FuncForPC calls an address may take.
CachedOnce ==
    /\ \A id \in 1..Len(heap') :
          /\ resolved'[id] <= 1
          /\ (resolved'[id] = 0) <=> heap'[id].frames.isNil
          /\ ~heap'[id].frames.isNil => heap'[id].frames.elems = ResolveAll(heap'[id].stack)
          /\ (id <= Len(heap) /\ ~heap[id].frames.isNil)
                 => /\ heap'[id].frames = heap[id].frames
                    /\ lookups'[id] = lookups[id]
    /\ (last'.op \in FrameCalls /\ ~panicked') => ~heap'[last'.arg.id].frames.isNil
    /\ (last'.op = "StackFrames" /\ ~panicked') => last'.val = heap'[last'.arg.id].frames

\* C6 as stated: the frames of an object are resolved on the first request
\* and never again, also when it holds no address, every later call returns
\* the cached frames, and runtime.FuncForPC is called at most once for each
\* captured address.
C6_LookupOnce ==
    [][/\ CachedOnce
       /\ \A id \in 1..Len(heap') :
              \A i \in 1..Len(heap'[id].stack) : lookups'[id][i] <= 1]_vars

\* C6 as amended: the same, but runtime.FuncForPC is called at most three
\* times for each captured address, all of them in the first request.
C6_ResolutionCaching ==
    [][/\ CachedOnce
       /\ \A id \in 1..Len(heap') :
              \A i \in 1..Len(heap'[id].stack) : lookups'[id][i] <= 3]_vars

C6_Witness ==
    /\ last.op \in FrameCalls /\ ~panicked
    /\ last.hit
    /\ resolved[last.arg.id] = 1
    /\ \E i \in 1..Len(heap[last.arg.id].stack) : lookups[last.arg.id][i] = 3

\* C7: no call panics.
C7_Totality == ~panicked

\* The offsets at which a path holds a segment that is exactly "src".
SrcAt(f) ==
    {i \in 1..(Len(f) - 2) :
        /\ SubSeq(f, i, i + 2) = SrcDir
        /\ i = 1 \/ f[i - 1] = Slash
        /\ i + 2 = Len(f) \/ f[i + 3] = Slash}

C9_SplitAtMidDot ==
    (phase = "out" /\ qname = ExampleName) =>
        pkgName = <<SubSeq(ExampleName, 1, 24), SubSeq(ExampleName, 26, 31)>>

\* C9 as amended: it gives the package "example.com/pkg/sub" and the function
\* name "Type.method".  Of every name, the package is what stands before the
\* first period after the last slash (the whole of it up to the last slash
\* when there is no such period), the function name is what follows, and the
\* function name holds a period wherever the name holds a middle dot.
C9_SplitAtPeriod ==
    phase = "out" =>
        LET pkg  == pkgName[1]
            name == pkgName[2]
            cut  == IF Len(pkg) + Len(name) < Len(qname) THEN 1 ELSE 0
        IN  /\ qname = ExampleName =>
                   /\ pkg = SubSeq(ExampleName, 1, 19)
                   /\ name = <<"T", "y", "p", "e", Period, "m", "e", "t", "h", "o", "d">>
            /\ pkg = SubSeq(qname, 1, Len(pkg))
            /\ Len(pkg) + cut + Len(name) = Len(qname)
            /\ cut = 1 => qname[Len(pkg) + 1] = Period
            /\ \A i \in 1..Len(name) :
                   /\ name[i] # MidDot
                   /\ name[i] # Slash
                   /\ LET c == qname[Len(pkg) + cut + i]
                      IN  name[i] = IF c = MidDot THEN Period ELSE c
            /\ \A i \in 1..Len(pkg) :
                   pkg[i] = Period => \E j \in (i + 1)..Len(pkg) : pkg[j] = Slash
            /\ cut = 0 => \A i \in 1..Len(name) : qname[Len(pkg) + i] # Period

C9_Witness ==
    /\ phase = "out"
    /\ qname = ExampleName
    /\ pkgName[2] = <<"T", "y", "p", "e", Period, "m", "e", "t", "h", "o", "d">>

\* C10: every call of StackFrames by a reader returns, for each captured
\* address, the frame that address resolves to, and each address is resolved
\* once.
C10_ConcurrentReaders ==
    /\ \A t \in DOMAIN tpc : tpc[t] = "done" => tret[t] = ResolveAll(cstack)
    /\ \A i \in DOMAIN cresolved : cresolved[i] <= 1

=============================================================================
